---- MODULE Spec2Model ----
(***************************************************************************)
(* Book catalogue service with role based moderation (FastAPI app of       *)
(* src/main.py over src/services.py, src/auth.py and src/models.py).       *)
(*                                                                         *)
(* The store is the two tables of src/models.py.  Every HTTP handler of    *)
(* src/main.py is one action: its dependencies (oauth2_scheme,             *)
(* get_current_user, get_current_admin, get_current_author), the service   *)
(* function it calls and the commit are all part of the step.  The last    *)
(* request and its response are kept in resp.                              *)
(*                                                                         *)
(* Spec is the service at one instant; SpecClock lets the clock advance     *)
(* between the requests that read only the users table.  SpecEditRace and  *)
(* SpecInsertRace take the requests of several workers in two steps, the   *)
(* reads of a session and its commit, with other requests in between.      *)
(*                                                                         *)
(* Bearer tokens are request inputs: verify_token accepts any token that   *)
(* verifies under SECRET_KEY and is not expired, whoever produced it, and  *)
(* keeps no record of issued tokens.                                       *)
(***************************************************************************)
EXTENDS Integers, Sequences, FiniteSets, TLC

\* ------------------------------------------------------------------ bounds
MaxUserId == 4      \* rows ever inserted into users
MaxBookId == 2      \* rows ever inserted into books
MaxEditsInFlight   == 1   \* edits of other workers between their read and their commit
MaxInsertsInFlight == 2   \* insertions of other workers between their check and their commit
MaxTime   == 16     \* clock range, in minutes: past the exp of a token issued at 0

\* ------------------------------------------------------- program constants
ACCESS_TOKEN_EXPIRE_MINUTES == 15
BCRYPT_MAX_BYTES == 72

NULL == "NULL"                      \* Python None / SQL NULL

\* models.UserRole
ADMIN  == "admin"
AUTHOR == "author"
UserRole == {ADMIN, AUTHOR}

\* models.BookStatus
PENDING  == "PENDING"
APPROVED == "APPROVED"
REJECTED == "REJECTED"
BookStatus == {PENDING, APPROVED, REJECTED}

\* ------------------------------------------------------------ input values
Emails == {"root@x.com", "a@x.com", "c@x.com"}
Isbns  == {"111-1111111", "222-2222222"}
Titles == {"t1", "t2"}
Reasons == {NULL, "r1"}

\* Passwords, by name; Chars gives the text as a sequence of code points.
pwShort == "pw8"      \* 8 ASCII characters, 8 bytes
pwMax   == "pw72"     \* 72 ASCII characters, 72 bytes
pwOver  == "pw73"     \* 73 ASCII characters, 73 bytes
pwWideMax  == "pw70+e-acute"  \* 70 ASCII characters and U+00E9: 71 characters, 72 bytes
pwWideOver == "pw71+e-acute"  \* 71 ASCII characters and U+00E9: 72 characters, 73 bytes
Passwords == {pwShort, pwMax, pwOver, pwWideMax, pwWideOver}

Chars(password) ==
    CASE password = pwShort -> [i \in 1..8  |-> 97]
      [] password = pwMax   -> [i \in 1..72 |-> 98]
      [] password = pwOver  -> [i \in 1..73 |-> 99]
      [] password = pwWideMax  -> [i \in 1..71 |-> IF i = 71 THEN 233 ELSE 100]
      [] password = pwWideOver -> [i \in 1..72 |-> IF i = 72 THEN 233 ELSE 101]
      [] OTHER              -> <<>>

\* str.encode("utf-8"): bytes taken by one code point
Utf8Width(cp) ==
    IF cp < 128 THEN 1 ELSE IF cp < 2048 THEN 2 ELSE IF cp < 65536 THEN 3 ELSE 4

RECURSIVE Utf8Len(_)
\* len(password.encode("utf-8"))
Utf8Len(s) == IF s = <<>> THEN 0 ELSE Utf8Width(Head(s)) + Utf8Len(Tail(s))

\* ----------------------------------------------------------------- tokens
\* What the Authorization header carries: nothing, a string that is no JWT,
\* or a JWT with its subject claim, signature and expiration claim.
NoToken   == [kind |-> "none",      sub |-> NULL, sig |-> NULL,   exp |-> 0]
Malformed == [kind |-> "malformed", sub |-> NULL, sig |-> NULL,   exp |-> 0]
Jwt(sub, sig, exp) == [kind |-> "jwt", sub |-> sub, sig |-> sig, exp |-> exp]

\* tokens presented to the handlers of the book and user tables
ReqTokens ==
    {NoToken, Malformed}
    \cup {Jwt(e, "good", ACCESS_TOKEN_EXPIRE_MINUTES) : e \in Emails}

\* tokens presented to GET /users/me, whose whole body is get_current_user
Tokens ==
    ReqTokens
    \cup {Jwt(NULL, "good", ACCESS_TOKEN_EXPIRE_MINUTES),
          Jwt("root@x.com", "bad", ACCESS_TOKEN_EXPIRE_MINUTES),
          Jwt("root@x.com", "good", 0)}

\* ------------------------------------------------------------------ state
VARIABLES
    users,        \* table users: id -> row
    books,        \* table books: id -> row
    nextUserId,   \* users.id sequence
    nextBookId,   \* books.id sequence
    now,          \* datetime.utcnow(), in minutes
    resp,         \* the last request and its response
    sessions,     \* number of SessionLocal sessions that are open
    ended,        \* the request that ended last: its status, whether it held a session
    inflight      \* requests of other workers that have read and not yet committed

vars == <<users, books, nextUserId, nextBookId, now, resp, sessions, ended, inflight>>

Range(f) == {f[x] : x \in DOMAIN f}

\* pwd_context.hash: the digest stands for exactly the hashed secret
BcryptHash(password) == [scheme |-> "bcrypt", secret |-> password]

User(id, email, hashed_password, role) ==
    [id |-> id, email |-> email, hashed_password |-> hashed_password, role |-> role]

Book(id, data, owner_id, status) ==
    [id |-> id, isbn |-> data.isbn, title |-> data.title, owner_id |-> owner_id,
     status |-> status, rejection_reason |-> NULL]

\* schemas.BookCreate / schemas.BookUpdate: the bibliographic fields
BookData == [isbn : Isbns, title : Titles]
NoData   == [isbn |-> NULL, title |-> NULL]

\* schemas.BookAdminUpdate
BookAdminUpdate == [status : BookStatus, rejection_reason : Reasons]
NoStatusData    == [status |-> NULL, rejection_reason |-> NULL]

NoResp ==
    [op |-> "none", token |-> NoToken, code |-> 0, caller |-> 0, book |-> 0,
     data |-> NoData, status_data |-> NoStatusData, before |-> {}, body |-> {},
     email |-> NULL, password |-> NULL, user |-> 0,
     access_token |-> NoToken, user_role |-> NULL, db |-> FALSE]

\* no request has ended yet
NoneEnded == [code |-> 0, db |-> FALSE]

Init ==
    /\ users = (1 :> User(1, "root@x.com", BcryptHash(pwShort), ADMIN))
               @@ (2 :> User(2, "a@x.com", BcryptHash(pwShort), AUTHOR))
    /\ books = <<>>
    /\ nextUserId = 3
    /\ nextBookId = 1
    /\ now = 0
    /\ resp = NoResp
    /\ sessions = 0
    /\ ended = NoneEnded
    /\ inflight = <<>>

\* ------------------------------------------------------------ src/auth.py
\* Optional[User] = None
NoUser == [id |-> 0, email |-> NULL, hashed_password |-> BcryptHash(NULL), role |-> NULL]

\* result of a dependency: the status it raised (200: none) and the user
Dep(code, uid) == [code |-> code, uid |-> uid]

\* pwd_context.verify
verify_password(plain_password, hashed_password) ==
    hashed_password = BcryptHash(plain_password)

\* get_password_hash limiting the number of characters, not of bytes
get_password_hash_char_limit(password) ==
    IF Len(Chars(password)) > BCRYPT_MAX_BYTES
    THEN [raised |-> 400, hash |-> BcryptHash(NULL)]
    ELSE [raised |-> 0, hash |-> BcryptHash(password)]

\* get_password_hash: raised (0: none) and the hash returned
get_password_hash(password) ==
    IF Utf8Len(Chars(password)) > BCRYPT_MAX_BYTES
    THEN [raised |-> 400, hash |-> BcryptHash(NULL)]
    ELSE [raised |-> 0, hash |-> BcryptHash(password)]

\* def create_access_token(data: dict): the keyword arguments it accepts
create_access_token_params == {"data"}

\* create_access_token stamping the time of issue as the expiration
create_access_token_without_ttl(data, t) == Jwt(data.sub, "good", t)

\* create_access_token(data) at time t
create_access_token(data, t) ==
    Jwt(data.sub, "good", t + ACCESS_TOKEN_EXPIRE_MINUTES)

\* OAuth2PasswordBearer(tokenUrl="/login"): auto_error is left at its default
\* (True), so a request without an Authorization header is answered 401
oauth2_scheme(token) ==
    IF token.kind = "none" THEN [code |-> 401, token |-> token]
    ELSE [code |-> 200, token |-> token]

\* jwt_decode with the expiration claim not verified
jwt_decode_no_exp(token, t) ==
    IF token.kind # "jwt" THEN [ok |-> FALSE, sub |-> NULL]
    ELSE IF token.sig # "good" THEN [ok |-> FALSE, sub |-> NULL]
    ELSE [ok |-> TRUE, sub |-> token.sub]

\* jwt.decode(token, SECRET_KEY, algorithms=[ALGORITHM]) at time t:
\* JWTError for a string that is no JWT, a bad signature, an exp in the past
jwt_decode(token, t) ==
    IF token.kind # "jwt" THEN [ok |-> FALSE, sub |-> NULL]
    ELSE IF token.sig # "good" THEN [ok |-> FALSE, sub |-> NULL]
    ELSE IF token.exp < t THEN [ok |-> FALSE, sub |-> NULL]
    ELSE [ok |-> TRUE, sub |-> token.sub]

\* verify_token: credentials_exception (401) or the email of the sub claim
verify_token(token, t) ==
    LET payload == jwt_decode(token, t) IN
    IF ~payload.ok THEN [code |-> 401, email |-> NULL]
    ELSE IF payload.sub = NULL THEN [code |-> 401, email |-> NULL]
    ELSE [code |-> 200, email |-> payload.sub]

get_current_user(token, us, t) ==
    LET bearer == oauth2_scheme(token) IN
    IF bearer.code # 200 THEN Dep(bearer.code, 0)
    ELSE LET v == verify_token(bearer.token, t) IN
         IF v.code # 200 THEN Dep(v.code, 0)
         ELSE LET found == {u \in DOMAIN us : us[u].email = v.email} IN
              IF found = {} THEN Dep(401, 0)
              ELSE Dep(200, CHOOSE u \in found : \A w \in found : u <= w)

\* get_current_admin that only requires an authenticated user
get_current_admin_no_role_check(token, us, t) ==
    get_current_user(token, us, t)

get_current_admin(token, us, t) ==
    LET current_user == get_current_user(token, us, t) IN
    IF current_user.code # 200 THEN current_user
    ELSE IF us[current_user.uid].role # ADMIN THEN Dep(403, current_user.uid)
    ELSE current_user

get_current_author(token, us, t) ==
    LET current_user == get_current_user(token, us, t) IN
    IF current_user.code # 200 THEN current_user
    ELSE IF us[current_user.uid].role \notin {AUTHOR, ADMIN}
         THEN Dep(403, current_user.uid)
    ELSE current_user

\* -------------------------------------------------------- src/services.py
\* result of a service call: the status it raised (0: none), the value it
\* returned (a set of book rows; {} is None) and the table after it
Ret(raised, ret, bs) == [raised |-> raised, ret |-> ret, books |-> bs]

\* Python "x is y": the same object, so of the same class
PyObject(class, ref) == [class |-> class, ref |-> ref]
PyIs(x, y) == x.class = y.class /\ x.ref = y.ref

\* user_is_admin testing that the user has a role at all
user_is_admin_any_role(user_from_db) == user_from_db.role \in UserRole

\* services.py:43, "user_from_db is UserRole.ADMIN": the operands are an
\* instance of models.User and a member of the enum models.UserRole
user_is_admin(user_from_db) ==
    PyIs(PyObject("User", user_from_db.id), PyObject("UserRole", 0))

\* create_book storing the book without its owner
create_book_without_owner(bs, us, data, user_id, id) ==
    IF \E b \in DOMAIN bs : bs[b].isbn = data.isbn THEN Ret(400, {}, bs)
    ELSE IF user_id \notin DOMAIN us THEN Ret(404, {}, bs)
    ELSE LET book_instance == Book(id, data, 0, PENDING)
         IN Ret(0, {book_instance}, bs @@ (id :> book_instance))

\* create_book without the ISBN lookup of services.py:27-32
create_book_no_isbn_check(bs, us, data, user_id, id) ==
    IF user_id \notin DOMAIN us THEN Ret(404, {}, bs)
    ELSE LET book_instance ==
                 Book(id, data, user_id,
                      IF user_is_admin(us[user_id]) THEN APPROVED ELSE PENDING)
         IN Ret(0, {book_instance}, bs @@ (id :> book_instance))

create_book(bs, us, data, user_id, id) ==
    IF \E b \in DOMAIN bs : bs[b].isbn = data.isbn THEN Ret(400, {}, bs)
    ELSE IF user_id \notin DOMAIN us THEN Ret(404, {}, bs)
    ELSE LET user_from_db == us[user_id]
             initial_status == IF user_is_admin(user_from_db) THEN APPROVED
                               ELSE PENDING
             book_instance == Book(id, data, user_id, initial_status)
         IN Ret(0, {book_instance}, bs @@ (id :> book_instance))

\* a user object whose role is neither ADMIN nor AUTHOR: what reaches the
\* else branches of get_books (services.py:115-116) and get_book
\* (services.py:160-162)
UnknownRoleUser(id) == User(id, "c@x.com", BcryptHash(pwShort), "editor")

\* get_books whose author branch also lets approved books through
get_books_author_sees_approved(bs, user) ==
    IF user = NoUser THEN {b \in Range(bs) : b.status = APPROVED}
    ELSE IF user.role = ADMIN THEN Range(bs)
    ELSE {b \in Range(bs) : b.owner_id = user.id \/ b.status = APPROVED}

get_books(bs, user) ==
    IF user = NoUser THEN {b \in Range(bs) : b.status = APPROVED}
    ELSE IF user.role = ADMIN THEN Range(bs)
    ELSE IF user.role = AUTHOR THEN {b \in Range(bs) : b.owner_id = user.id}
    ELSE Range(bs)

\* get_book whose author branch also lets approved books through
get_book_author_sees_approved(bs, book_id, user) ==
    IF book_id \notin DOMAIN bs THEN {}
    ELSE LET book == bs[book_id] IN
         IF user = NoUser
         THEN (IF book.status # APPROVED THEN {} ELSE {book})
         ELSE IF user.role = ADMIN THEN {book}
         ELSE IF book.owner_id # user.id /\ book.status # APPROVED THEN {}
         ELSE {book}

get_book(bs, book_id, user) ==
    IF book_id \notin DOMAIN bs THEN {}
    ELSE LET book == bs[book_id] IN
         IF user = NoUser
         THEN (IF book.status # APPROVED THEN {} ELSE {book})
         ELSE IF user.role = ADMIN THEN {book}
         ELSE IF user.role = AUTHOR
         THEN (IF book.owner_id # user.id THEN {} ELSE {book})
         ELSE {}

\* a books.isbn column declared without unique=True: every commit passes
isbn_not_enforced(bs) == TRUE

\* books.isbn is a unique column: the commit of a row whose isbn another row
\* holds raises IntegrityError, which no handler catches (500)
isbn_unique(bs) ==
    \A b1, b2 \in DOMAIN bs : bs[b1].isbn = bs[b2].isbn => b1 = b2

\* the for/setattr loop over book_data.model_dump()
set_fields(book, book_data) ==
    [book EXCEPT !.isbn = book_data.isbn, !.title = book_data.title]

\* reset_review that leaves the stored rejection reason in place
reset_review_keeps_reason(book, user) ==
    IF user.role = AUTHOR /\ book.status # PENDING
    THEN [book EXCEPT !.status = PENDING]
    ELSE book

\* reset_review that sends the book back to review whoever edits it
reset_review_for_any_role(book, user) ==
    IF book.status # PENDING
    THEN [book EXCEPT !.status = PENDING, !.rejection_reason = NULL]
    ELSE book

\* reset_review that sends only rejected books back to review
reset_review_only_rejected(book, user) ==
    IF user.role = AUTHOR /\ book.status = REJECTED
    THEN [book EXCEPT !.status = PENDING, !.rejection_reason = NULL]
    ELSE book

\* services.py:203-205
reset_review(book, user) ==
    IF user.role = AUTHOR /\ book.status # PENDING
    THEN [book EXCEPT !.status = PENDING, !.rejection_reason = NULL]
    ELSE book

\* services_update_book that commits the edit before it checks the owner
services_update_book_commit_then_check(bs, book_data, book_id, user) ==
    IF book_id \notin DOMAIN bs THEN Ret(0, {}, bs)
    ELSE LET book == bs[book_id]
             updated == reset_review(set_fields(book, book_data), user)
             after == [bs EXCEPT ![book_id] = updated]
         IN IF ~isbn_unique(after) THEN Ret(500, {}, bs)
            ELSE IF user.role = AUTHOR /\ book.owner_id # user.id
            THEN Ret(403, {}, after)
            ELSE Ret(0, {updated}, after)

\* services_update_book without the ownership check of services.py:191-195
services_update_book_no_owner_check(bs, book_data, book_id, user) ==
    IF book_id \notin DOMAIN bs THEN Ret(0, {}, bs)
    ELSE LET updated == reset_review(set_fields(bs[book_id], book_data), user)
             after == [bs EXCEPT ![book_id] = updated]
         IN IF ~isbn_unique(after) THEN Ret(500, {}, bs)
            ELSE Ret(0, {updated}, after)

services_update_book(bs, book_data, book_id, user) ==
    IF book_id \notin DOMAIN bs THEN Ret(0, {}, bs)
    ELSE LET book == bs[book_id] IN
         IF user.role = AUTHOR /\ book.owner_id # user.id THEN Ret(403, {}, bs)
         ELSE LET updated == reset_review(set_fields(book, book_data), user)
                  after == [bs EXCEPT ![book_id] = updated]
              IN IF ~isbn_unique(after) THEN Ret(500, {}, bs)
                 ELSE Ret(0, {updated}, after)

\* set_status storing the supplied reason whatever the new status is
set_status_stores_any_reason(book, status_data) ==
    [book EXCEPT !.status = status_data.status,
                 !.rejection_reason = status_data.rejection_reason]

\* services.py:244-250
set_status(book, status_data) ==
    [book EXCEPT !.status = status_data.status,
                 !.rejection_reason =
                     IF status_data.status = REJECTED
                     THEN status_data.rejection_reason ELSE NULL]

services_update_book_status(bs, book_id, status_data, admin) ==
    IF admin.role # ADMIN THEN Ret(403, {}, bs)
    ELSE IF book_id \notin DOMAIN bs THEN Ret(0, {}, bs)
    ELSE LET book == set_status(bs[book_id], status_data) IN
         Ret(0, {book}, [bs EXCEPT ![book_id] = book])

\* services_delete_book that returns the book without deleting its row
services_delete_book_without_delete(bs, book_id, user) ==
    IF book_id \notin DOMAIN bs THEN Ret(0, {}, bs)
    ELSE IF user.role # ADMIN THEN Ret(403, {}, bs)
    ELSE Ret(0, {bs[book_id]}, bs)

\* services_delete_book deleting through a query that lost its id filter
services_delete_book_unfiltered(bs, book_id, user) ==
    IF book_id \notin DOMAIN bs THEN Ret(0, {}, bs)
    ELSE IF user.role # ADMIN THEN Ret(403, {}, bs)
    ELSE Ret(0, {bs[book_id]}, <<>>)

services_delete_book(bs, book_id, user) ==
    IF book_id \notin DOMAIN bs THEN Ret(0, {}, bs)
    ELSE IF user.role # ADMIN THEN Ret(403, {}, bs)
    ELSE LET book_to_return == bs[book_id] IN
         Ret(0, {book_to_return}, [b \in DOMAIN bs \ {book_id} |-> bs[b]])

\* no request is being served and the server waits for one
Idle == resp = NoResp /\ ended = NoneEnded

\* the clock advances between requests
Tick ==
    /\ Idle
    /\ now < MaxTime
    /\ now' = now + 1
    /\ UNCHANGED <<users, books, nextUserId, nextBookId, resp, sessions, ended, inflight>>

\* db.py:27, db = SessionLocal(): one more open session
SessionLocal(n) == n + 1

\* Session.close()
db_close(n) == n - 1

\* get_db leaving its yield without a finally clause: db.close() is reached
\* only when the handler returned normally
get_db_exit_without_finally(n, code) == IF code = 200 THEN db_close(n) ELSE n

\* db.py:28-31: get_db leaves its yield, by a normal return or by the
\* exception the request raised (code); the finally clause closes the session
get_db_exit(n, code) == db_close(n)

\* a request begins: the dependency get_db is entered when it is reached
\* (acquired) and nothing is known of an ended request any more
begin_request(acquired) ==
    /\ sessions' = IF acquired THEN SessionLocal(sessions) ELSE sessions
    /\ ended' = NoneEnded
    /\ UNCHANGED inflight

\* the response is sent and the request ends: the exit stack of the request
\* resumes get_db if the request had entered it
close_request ==
    /\ resp # NoResp
    /\ resp' = NoResp
    /\ sessions' = IF resp.db THEN get_db_exit(sessions, resp.code) ELSE sessions
    /\ ended' = [code |-> resp.code, db |-> resp.db]
    /\ UNCHANGED <<users, books, nextUserId, nextBookId, now, inflight>>

\* the server waits for the next request; what it knew of the request that
\* ended is gone with that request's scope
await_request ==
    /\ resp = NoResp
    /\ ended # NoneEnded
    /\ ended' = NoneEnded
    /\ UNCHANGED <<users, books, nextUserId, nextBookId, now, resp, sessions, inflight>>

\* ------------------------------------------------------------ src/main.py
\* the user a dependency resolved, as the handler receives it
UserOf(us, uid) == IF uid = 0 THEN NoUser ELSE us[uid]

\* the row of book_id when the request arrives ({}: there is none)
RowOf(bs, book_id) == IF book_id \in DOMAIN bs THEN {bs[book_id]} ELSE {}

\* a handler that got None from its service call raises 404
HandlerCode(r) == IF r.raised # 0 THEN r.raised ELSE IF r.ret = {} THEN 404 ELSE 200

Request(op, token, dep) ==
    [NoResp EXCEPT !.op = op, !.token = token, !.code = dep.code, !.caller = dep.uid,
                   !.db = TRUE]

\* POST /login
login_for_access_token ==
    Idle /\
    \E username \in Emails, password \in Passwords :
        LET found == {u \in DOMAIN users : users[u].email = username}
            user == IF found = {} THEN NoUser
                    ELSE users[CHOOSE u \in found : \A w \in found : u <= w]
            bad_credentials ==
                user = NoUser \/ ~verify_password(password, user.hashed_password)
            \* main.py:46-48 calls create_access_token(data=..., expires_delta=...)
            call_ok == {"data", "expires_delta"} \subseteq create_access_token_params
            code == IF bad_credentials THEN 401 ELSE IF ~call_ok THEN 500 ELSE 200
        IN /\ resp' = [NoResp EXCEPT
                         !.op = "login", !.code = code, !.db = TRUE,
                         !.email = username, !.password = password,
                         !.access_token =
                             IF code = 200
                             THEN create_access_token([sub |-> user.email], now)
                             ELSE NoToken,
                         !.user_role = IF code = 200 THEN user.role ELSE NULL]
           /\ begin_request(TRUE)
           /\ UNCHANGED <<users, books, nextUserId, nextBookId, now>>

\* insert_user without the lookup of the email (main.py:74-82, 309-317)
insert_user_no_email_check(us, email, password, role, id) ==
    LET h == get_password_hash(password) IN
    IF h.raised # 0 THEN [raised |-> h.raised, users |-> us]
    ELSE [raised |-> 0, users |-> us @@ (id :> User(id, email, h.hash, role))]

\* the body shared by register_user and create_admin_user (main.py:73-95,
\* 308-329): email check, hash, insert with the given role
insert_user(us, email, password, role, id) ==
    IF \E u \in DOMAIN us : us[u].email = email THEN [raised |-> 400, users |-> us]
    ELSE LET h == get_password_hash(password) IN
         IF h.raised # 0 THEN [raised |-> h.raised, users |-> us]
         ELSE [raised |-> 0, users |-> us @@ (id :> User(id, email, h.hash, role))]

\* POST /register
register_user ==
    Idle /\
    \E email \in Emails, password \in {pwMax, pwOver, pwWideOver} :
        LET r == insert_user(users, email, password, AUTHOR, nextUserId) IN
        /\ r.raised = 0 => nextUserId <= MaxUserId
        /\ users' = r.users
        /\ nextUserId' = IF r.raised = 0 THEN nextUserId + 1 ELSE nextUserId
        /\ resp' = [NoResp EXCEPT
                      !.op = "register", !.email = email, !.password = password,
                      !.db = TRUE,
                      !.code = IF r.raised = 0 THEN 200 ELSE r.raised,
                      !.user = IF r.raised = 0 THEN nextUserId ELSE 0]
        /\ begin_request(TRUE)
        /\ UNCHANGED <<books, nextBookId, now>>

\* GET /users/me
read_users_me ==
    Idle /\
    \E token \in Tokens :
        LET dep == get_current_user(token, users, now) IN
        /\ resp' = [Request("users_me", token, dep) EXCEPT
                      !.user = dep.uid, !.db = oauth2_scheme(token).code = 200]
        /\ begin_request(oauth2_scheme(token).code = 200)
        /\ UNCHANGED <<users, books, nextUserId, nextBookId, now>>

\* GET /books/
get_all_books ==
    Idle /\
    \E token \in ReqTokens :
        LET dep == get_current_user(token, users, now) IN
        /\ resp' = [Request("get_all_books", token, dep) EXCEPT
                      !.body = IF dep.code = 200
                               THEN get_books(books, UserOf(users, dep.uid)) ELSE {}]
        /\ begin_request(TRUE)
        /\ UNCHANGED <<users, books, nextUserId, nextBookId, now>>

\* GET /books/{book_id}
get_book_by_id ==
    Idle /\
    \E token \in ReqTokens, book_id \in 1..MaxBookId :
        LET dep == get_current_user(token, users, now)
            book == IF dep.code = 200
                    THEN get_book(books, book_id, UserOf(users, dep.uid)) ELSE {}
        IN /\ resp' = [Request("get_book_by_id", token, dep) EXCEPT
                         !.book = book_id, !.body = book,
                         !.code = IF dep.code # 200 THEN dep.code
                                  ELSE IF book = {} THEN 404 ELSE 200]
           /\ begin_request(TRUE)
           /\ UNCHANGED <<users, books, nextUserId, nextBookId, now>>

\* POST /books/
create_new_book ==
    Idle /\
    \E token \in ReqTokens, book \in BookData :
        LET dep == get_current_author(token, users, now)
            r == IF dep.code = 200
                 THEN create_book(books, users, book, dep.uid, nextBookId)
                 ELSE Ret(dep.code, {}, books)
            created == r.raised = 0
        IN /\ created => nextBookId <= MaxBookId
           /\ books' = r.books
           /\ nextBookId' = IF created THEN nextBookId + 1 ELSE nextBookId
           /\ resp' = [Request("create_new_book", token, dep) EXCEPT
                         !.data = book, !.body = r.ret,
                         !.code = IF created THEN 200 ELSE r.raised]
           /\ begin_request(TRUE)
           /\ UNCHANGED <<users, nextUserId, now>>

\* PUT /books/{book_id}
update_book ==
    Idle /\
    \E token \in ReqTokens, book_id \in 1..MaxBookId, book \in BookData :
        LET dep == get_current_author(token, users, now)
            r == IF dep.code = 200
                 THEN services_update_book(books, book, book_id, users[dep.uid])
                 ELSE Ret(dep.code, {}, books)
        IN /\ books' = r.books
           /\ resp' = [Request("update_book", token, dep) EXCEPT
                         !.book = book_id, !.data = book, !.body = r.ret,
                         !.before = RowOf(books, book_id),
                         !.code = HandlerCode(r)]
           /\ begin_request(TRUE)
           /\ UNCHANGED <<users, nextUserId, nextBookId, now>>

\* GET /my-books/
get_my_books ==
    Idle /\
    \E token \in ReqTokens :
        LET dep == get_current_author(token, users, now) IN
        /\ resp' = [Request("get_my_books", token, dep) EXCEPT
                      !.body = IF dep.code = 200
                               THEN get_books(books, users[dep.uid]) ELSE {}]
        /\ begin_request(TRUE)
        /\ UNCHANGED <<users, books, nextUserId, nextBookId, now>>

\* PUT /admin/books/{book_id}/status
update_book_status ==
    Idle /\
    \E token \in ReqTokens, book_id \in 1..MaxBookId, status_data \in BookAdminUpdate :
        LET dep == get_current_admin(token, users, now)
            r == IF dep.code = 200
                 THEN services_update_book_status(books, book_id, status_data,
                                                  users[dep.uid])
                 ELSE Ret(dep.code, {}, books)
        IN /\ books' = r.books
           /\ resp' = [Request("update_book_status", token, dep) EXCEPT
                         !.book = book_id, !.status_data = status_data,
                         !.before = RowOf(books, book_id),
                         !.body = r.ret, !.code = HandlerCode(r)]
           /\ begin_request(TRUE)
           /\ UNCHANGED <<users, nextUserId, nextBookId, now>>

\* DELETE /books/{book_id}
delete_book ==
    Idle /\
    \E token \in ReqTokens, book_id \in 1..MaxBookId :
        LET dep == get_current_admin(token, users, now)
            r == IF dep.code = 200
                 THEN services_delete_book(books, book_id, users[dep.uid])
                 ELSE Ret(dep.code, {}, books)
        IN /\ books' = r.books
           /\ resp' = [Request("delete_book", token, dep) EXCEPT
                         !.book = book_id, !.before = RowOf(books, book_id),
                         !.body = r.ret, !.code = HandlerCode(r)]
           /\ begin_request(TRUE)
           /\ UNCHANGED <<users, nextUserId, nextBookId, now>>

\* POST /admin/users/
create_admin_user ==
    Idle /\
    \E token \in ReqTokens, email \in Emails, password \in {pwMax, pwOver} :
        LET dep == get_current_admin(token, users, now)
            r == IF dep.code = 200
                 THEN insert_user(users, email, password, ADMIN, nextUserId)
                 ELSE [raised |-> dep.code, users |-> users]
        IN /\ r.raised = 0 => nextUserId <= MaxUserId
           /\ users' = r.users
           /\ nextUserId' = IF r.raised = 0 THEN nextUserId + 1 ELSE nextUserId
           /\ resp' = [Request("create_admin_user", token, dep) EXCEPT
                         !.email = email, !.password = password,
                         !.code = IF r.raised = 0 THEN 200 ELSE r.raised,
                         !.user = IF r.raised = 0 THEN nextUserId ELSE 0]
           /\ begin_request(TRUE)
           /\ UNCHANGED <<books, nextBookId, now>>

\* the requests served at one instant
Next ==
    \/ close_request
    \/ await_request
    \/ login_for_access_token
    \/ register_user
    \/ read_users_me
    \/ get_all_books
    \/ get_book_by_id
    \/ create_new_book
    \/ update_book
    \/ get_my_books
    \/ update_book_status
    \/ delete_book
    \/ create_admin_user


Spec == Init /\ [][Next]_vars

\* the requests that touch only the users table, with time passing between
\* them, so that a presented token is verified before and after its exp
NextClock ==
    \/ Tick
    \/ close_request
    \/ await_request
    \/ login_for_access_token
    \/ register_user
    \/ read_users_me
    \/ create_admin_user

SpecClock == Init /\ [][NextClock]_vars

\* ------------------------------------------------- concurrent requests
\* The handlers are plain def functions, which FastAPI runs in a thread pool,
\* each with the session get_db gave it.  A request of another worker is
\* taken in two steps: what it reads (and checks) with its session, and,
\* after any number of whole requests and steps of other workers, what it
\* writes and commits.

\* such a request after its reads: the user its token resolved to, its
\* input, and the row its session has loaded ({}: none)
Txn(op, token, uid, book_id, data, row, email, password) ==
    [op |-> op, token |-> token, uid |-> uid, book_id |-> book_id, data |-> data,
     row |-> row, email |-> email, password |-> password]

Remove(seq, i) == [j \in 1..(Len(seq) - 1) |-> IF j < i THEN seq[j] ELSE seq[j + 1]]

\* a users.email column declared without unique=True: every commit passes
email_not_enforced(us) == TRUE

\* users.email is a unique column (models.py:21): the commit of a row whose
\* email another row holds raises IntegrityError
email_unique(us) ==
    \A u1, u2 \in DOMAIN us : us[u1].email = us[u2].email => u1 = u2

\* db.commit() of a session holding the object obj it had loaded as the row
\* loaded: the flush emits UPDATE books SET <the columns whose value differs
\* from the loaded one> WHERE id = loaded.id; a row that is gone makes the
\* flush (or the refresh after it) raise, a duplicate isbn makes it raise
flush_update(bs, loaded, obj) ==
    IF loaded.id \notin DOMAIN bs THEN Ret(500, {}, bs)
    ELSE LET cur == bs[loaded.id]
             written ==
                 [cur EXCEPT
                    !.isbn = IF obj.isbn # loaded.isbn THEN obj.isbn ELSE @,
                    !.title = IF obj.title # loaded.title THEN obj.title ELSE @,
                    !.status = IF obj.status # loaded.status THEN obj.status ELSE @,
                    !.rejection_reason =
                        IF obj.rejection_reason # loaded.rejection_reason
                        THEN obj.rejection_reason ELSE @]
             after == [bs EXCEPT ![loaded.id] = written]
         IN IF ~isbn_unique(after) THEN Ret(500, {}, bs)
            ELSE Ret(0, {written}, after)

\* a step that leaves the request in flight with its session open
read_step(txn, max) ==
    /\ Len(inflight) < max
    /\ inflight' = Append(inflight, txn)
    /\ sessions' = SessionLocal(sessions)
    /\ UNCHANGED <<users, books, nextUserId, nextBookId, now, resp, ended>>

\* services.update_book up to the ownership check (services.py:185-195)
update_book_query ==
    Idle /\
    \E token \in ReqTokens, book_id \in DOMAIN books, book \in BookData :
        LET dep == get_current_author(token, users, now) IN
        /\ dep.code = 200
        /\ ~(users[dep.uid].role = AUTHOR /\ books[book_id].owner_id # dep.uid)
        /\ read_step(Txn("update_book", token, dep.uid, book_id, book,
                         {books[book_id]}, NULL, NULL), MaxEditsInFlight)

\* services.update_book from the setattr loop to the commit and refresh
\* (services.py:197-212), on the object the session loaded
update_book_commit ==
    Idle /\
    \E i \in DOMAIN inflight :
        LET txn == inflight[i] IN
        /\ txn.op = "update_book"
        /\ LET loaded == CHOOSE row \in txn.row : TRUE
               obj == reset_review(set_fields(loaded, txn.data), users[txn.uid])
               r == flush_update(books, loaded, obj)
           IN /\ books' = r.books
              /\ resp' = [Request("update_book", txn.token, Dep(200, txn.uid)) EXCEPT
                            !.book = txn.book_id, !.data = txn.data,
                            !.before = RowOf(books, txn.book_id),
                            !.body = r.ret, !.code = HandlerCode(r)]
        /\ inflight' = Remove(inflight, i)
        /\ UNCHANGED <<users, nextUserId, nextBookId, now, sessions, ended>>

\* services.create_book up to the lookups (services.py:26-37)
create_book_check ==
    Idle /\
    \E token \in ReqTokens, book \in BookData :
        LET dep == get_current_author(token, users, now) IN
        /\ dep.code = 200
        /\ ~\E b \in DOMAIN books : books[b].isbn = book.isbn
        /\ read_step(Txn("create_new_book", token, dep.uid, 0, book, {}, NULL, NULL),
                     MaxInsertsInFlight)

\* services.create_book from the status choice to the commit (services.py:39-59)
create_book_commit ==
    Idle /\
    \E i \in DOMAIN inflight :
        LET txn == inflight[i] IN
        /\ txn.op = "create_new_book"
        /\ LET initial_status == IF user_is_admin(users[txn.uid]) THEN APPROVED
                                 ELSE PENDING
               book_instance == Book(nextBookId, txn.data, txn.uid, initial_status)
               after == books @@ (nextBookId :> book_instance)
               created == isbn_unique(after)
           IN /\ created => nextBookId <= MaxBookId
              /\ books' = IF created THEN after ELSE books
              /\ nextBookId' = IF created THEN nextBookId + 1 ELSE nextBookId
              /\ resp' = [Request("create_new_book", txn.token, Dep(200, txn.uid)) EXCEPT
                            !.data = txn.data,
                            !.body = IF created THEN {book_instance} ELSE {},
                            !.code = IF created THEN 200 ELSE 500]
        /\ inflight' = Remove(inflight, i)
        /\ UNCHANGED <<users, nextUserId, now, sessions, ended>>

\* register_user up to the email lookup (main.py:73-82)
register_check ==
    Idle /\
    \E email \in Emails :
        /\ ~\E u \in DOMAIN users : users[u].email = email
        /\ read_step(Txn("register", NoToken, 0, 0, NoData, {}, email, pwMax),
                     MaxInsertsInFlight)

\* register_user from the hash to the commit (main.py:84-95)
register_commit ==
    Idle /\
    \E i \in DOMAIN inflight :
        LET txn == inflight[i] IN
        /\ txn.op = "register"
        /\ LET h == get_password_hash(txn.password)
               db_user == User(nextUserId, txn.email, h.hash, AUTHOR)
               after == users @@ (nextUserId :> db_user)
               code == IF h.raised # 0 THEN h.raised
                       ELSE IF ~email_unique(after) THEN 500 ELSE 200
           IN /\ code = 200 => nextUserId <= MaxUserId
              /\ users' = IF code = 200 THEN after ELSE users
              /\ nextUserId' = IF code = 200 THEN nextUserId + 1 ELSE nextUserId
              /\ resp' = [NoResp EXCEPT
                            !.op = "register", !.email = txn.email,
                            !.password = txn.password, !.db = TRUE, !.code = code,
                            !.user = IF code = 200 THEN nextUserId ELSE 0]
        /\ inflight' = Remove(inflight, i)
        /\ UNCHANGED <<books, nextBookId, now, sessions, ended>>

\* the store once author 2 has created a book, which is waiting for review
InitEditRace ==
    /\ users = (1 :> User(1, "root@x.com", BcryptHash(pwShort), ADMIN))
               @@ (2 :> User(2, "a@x.com", BcryptHash(pwShort), AUTHOR))
    /\ books = (1 :> Book(1, [isbn |-> "111-1111111", title |-> "t1"], 2, PENDING))
    /\ nextUserId = 3
    /\ nextBookId = 2
    /\ now = 0
    /\ resp = NoResp
    /\ sessions = 0
    /\ ended = NoneEnded
    /\ inflight = <<>>

\* admin status updates as whole requests, around the two steps of an edit
\* by another worker
NextEditRace ==
    \/ close_request
    \/ await_request
    \/ update_book_status
    \/ update_book_query
    \/ update_book_commit

SpecEditRace == InitEditRace /\ [][NextEditRace]_vars

\* creations and registrations of several workers, step by step
NextInsertRace ==
    \/ close_request
    \/ await_request
    \/ create_book_check
    \/ create_book_commit
    \/ register_check
    \/ register_commit

SpecInsertRace == Init /\ [][NextInsertRace]_vars

\* ================================================================ claims
\* the user who made the request in flight (NoUser: none was resolved)
Caller == UserOf(users, resp.caller)

\* spec section 4.3, visibility rules 1-3
VisibleTo(user, book) ==
    IF user = NoUser THEN book.status = APPROVED
    ELSE IF user.role = ADMIN THEN TRUE
    ELSE user.role = AUTHOR /\ book.owner_id = user.id

\* a token that verifies at time t: a well-formed JWT with a good signature,
\* not expired, carrying a subject claim
ValidAt(token, t) ==
    /\ token.kind = "jwt"
    /\ token.sig = "good"
    /\ token.exp >= t
    /\ token.sub # NULL

\* C1: a book created by an AUTHOR starts PENDING and a book created by an
\* ADMIN starts APPROVED.
C1_InitialStatusByRole ==
    (resp.op = "create_new_book" /\ resp.code = 200) =>
        \A b \in resp.body :
            /\ Caller.role = AUTHOR => b.status = PENDING
            /\ Caller.role = ADMIN => b.status = APPROVED

\* C2: in every state get_books returns exactly the caller's visible set:
\* approved books for an anonymous caller, every book for an ADMIN, the
\* author's own books (and no other user's) for an AUTHOR; and that is what
\* the two listing endpoints answer.
C2_GetBooksVisibleSet ==
    /\ \A user \in Range(users) \cup {NoUser} :
           get_books(books, user) = {b \in Range(books) : VisibleTo(user, b)}
    /\ (resp.op \in {"get_all_books", "get_my_books"} /\ resp.code = 200) =>
           resp.body = {b \in Range(books) : VisibleTo(Caller, b)}

C2_Witness ==
    /\ resp.op = "get_my_books"
    /\ resp.code = 200
    /\ Caller.role = AUTHOR
    /\ resp.body # {}
    /\ \E b \in Range(books) \ resp.body : b.status = APPROVED
    /\ \E b \in Range(books) : b.status # APPROVED

\* C3: GET /books and GET /books/{id} without a bearer token are served as
\* anonymous access over the approved books, not rejected.
C3_AnonymousReadServed ==
    (resp.op \in {"get_all_books", "get_book_by_id"} /\ resp.token = NoToken) =>
        /\ resp.code \in {200, 404}
        /\ resp.op = "get_all_books" =>
               resp.body = {b \in Range(books) : b.status = APPROVED}

\* C4: after an AUTHOR's successful edit of an own book, whatever its status
\* was, the book is PENDING and its rejection_reason is null.
C4_AuthorEditReentersReview ==
    (resp.op = "update_book" /\ resp.code = 200 /\ Caller.role = AUTHOR) =>
        /\ books[resp.book].status = PENDING
        /\ books[resp.book].rejection_reason = NULL
        /\ resp.body = {books[resp.book]}
        /\ \A b \in resp.before : b.owner_id = resp.caller

C4_Witness ==
    /\ resp.op = "update_book"
    /\ resp.code = 200
    /\ Caller.role = AUTHOR
    /\ \E b \in resp.before : b.status = REJECTED /\ b.rejection_reason # NULL

\* C5: a status update by a caller who is no ADMIN is refused (403, or 401
\* without identity) and changes nothing, and no request of a caller who is
\* no ADMIN makes any book APPROVED or REJECTED.
C5_OnlyAdminModerates ==
    [][ /\ (resp'.op = "update_book_status" /\ resp'.caller # 0
               /\ users[resp'.caller].role # ADMIN)
           => (resp'.code = 403 /\ books' = books)
        /\ (resp'.op = "update_book_status" /\ resp'.caller = 0)
           => (resp'.code = 401 /\ books' = books)
        /\ (resp'.op # "none"
               /\ (resp'.caller = 0 \/ users[resp'.caller].role # ADMIN))
           => \A b \in DOMAIN books' :
                  books'[b].status \in {APPROVED, REJECTED}
                      => (b \in DOMAIN books /\ books[b].status = books'[b].status)
      ]_vars

C5_Witness ==
    /\ resp.op = "update_book_status"
    /\ resp.code = 403
    /\ Caller.role = AUTHOR
    /\ resp.before # {}
    /\ resp.status_data.status = APPROVED

\* C6: update_book on an existing book succeeds only for an ADMIN or for the
\* AUTHOR who owns it; another AUTHOR gets 403 and the table is unchanged; a
\* missing book gives 404, not 403.
C6_UpdateNeedsAdminOrOwner ==
    [][ (resp'.op = "update_book" /\ resp'.caller # 0) =>
            LET user == users[resp'.caller] IN
            IF resp'.book \in DOMAIN books
            THEN LET owner == books[resp'.book].owner_id IN
                 /\ resp'.code = 200
                        => (user.role = ADMIN \/ (user.role = AUTHOR /\ owner = user.id))
                 /\ (user.role = AUTHOR /\ owner # user.id)
                        => (resp'.code = 403 /\ books' = books)
            ELSE resp'.code = 404 /\ books' = books
      ]_vars

C6_Witness ==
    /\ resp.op = "update_book"
    /\ resp.code = 403
    /\ Caller.role = AUTHOR
    /\ \E b \in resp.before :
           b.owner_id # resp.caller /\ (b.isbn # resp.data.isbn \/ b.title # resp.data.title)

C8_DuplicateIsbnRejected ==
    [][ (resp'.op = "create_new_book"
            /\ \E b \in DOMAIN books : books[b].isbn = resp'.data.isbn)
        => /\ books' = books
           /\ resp'.caller # 0 => resp'.code = 400
      ]_vars

C8_Witness ==
    /\ resp.op = "create_new_book"
    /\ resp.code = 400
    /\ \E b \in Range(books) :
           /\ b.isbn = resp.data.isbn
           /\ b.owner_id # resp.caller
           /\ b.status = APPROVED

\* C9: POST /login with the email and password of a stored user answers 200
\* with a token whose subject is that email, and the user's role; any other
\* credentials answer 401 without a token.
C9_LoginIssuesToken ==
    resp.op = "login" =>
        IF \E u \in Range(users) :
               u.email = resp.email /\ verify_password(resp.password, u.hashed_password)
        THEN /\ resp.code = 200
             /\ resp.access_token.kind = "jwt"
             /\ resp.access_token.sub = resp.email
             /\ \E u \in Range(users) : u.email = resp.email /\ u.role = resp.user_role
        ELSE resp.code = 401 /\ resp.access_token = NoToken

\* C10: get_current_user resolves a presented token to a user only when the
\* token verifies and its subject is the email of a stored user, and then to
\* that user; every other presented token is answered 401, and no request
\* that carries a token is served as anonymous or as another user.
C10_TokenResolvesToItsUser ==
    /\ \A token \in Tokens \ {NoToken} :
           LET cu == get_current_user(token, users, now) IN
           IF ValidAt(token, now) /\ \E u \in Range(users) : u.email = token.sub
           THEN cu.code = 200 /\ users[cu.uid].email = token.sub
           ELSE cu.code = 401 /\ cu.uid = 0
    /\ (resp.op \notin {"none", "login", "register"} /\ resp.token # NoToken) =>
           IF resp.caller = 0 THEN resp.code = 401
           ELSE ValidAt(resp.token, now) /\ Caller.email = resp.token.sub

C10_Witness ==
    /\ resp.op = "users_me"
    /\ resp.token = Jwt("root@x.com", "good", 0)
    /\ now > 0
    /\ resp.code = 401

\* C11: a user's role is set at creation and never changes: POST /register
\* creates AUTHORs, POST /admin/users creates ADMINs and succeeds only for a
\* caller who is an ADMIN, and no request changes (or removes) a stored
\* user's role.
C11_RoleFixedAtCreation ==
    [][ /\ \A u \in DOMAIN users :
               u \in DOMAIN users' /\ users'[u].role = users[u].role
        /\ \A u \in DOMAIN users' \ DOMAIN users :
               \/ resp'.op = "register" /\ users'[u].role = AUTHOR
               \/ /\ resp'.op = "create_admin_user"
                  /\ users'[u].role = ADMIN
                  /\ resp'.caller \in DOMAIN users
                  /\ users[resp'.caller].role = ADMIN
        /\ (resp'.op \in {"register", "create_admin_user"} /\ resp'.code = 200)
               => (resp'.user \in DOMAIN users' \ DOMAIN users)
        /\ (resp'.op = "create_admin_user" /\ resp'.code = 200)
               => (resp'.caller \in DOMAIN users /\ users[resp'.caller].role = ADMIN)
      ]_vars

C11_Witness ==
    /\ resp.op = "create_admin_user"
    /\ resp.code = 200
    /\ Caller.role = ADMIN
    /\ users[resp.user].role = ADMIN
    /\ users[resp.user].email = resp.email

\* C12: no two stored users share an email, and POST /register and POST
\* /admin/users with an email some user holds answer 400 and leave the users
\* table as it was.
C12_EmailUnique ==
    [][ /\ \A u1, u2 \in DOMAIN users' :
               users'[u1].email = users'[u2].email => u1 = u2
        /\ (resp'.op \in {"register", "create_admin_user"}
               /\ \E u \in DOMAIN users : users[u].email = resp'.email)
           => /\ users' = users
              /\ resp'.code # 200
              /\ (resp'.op = "register"
                     \/ (resp'.caller # 0 /\ users[resp'.caller].role = ADMIN))
                 => resp'.code = 400
      ]_vars

C12_Witness ==
    /\ resp.op = "register"
    /\ resp.code = 400
    /\ resp.password = pwMax
    /\ \E u \in Range(users) : u.email = resp.email /\ u.role = ADMIN

\* C13: a successful admin status update leaves the book with the requested
\* status; with REJECTED the stored reason is the supplied one (null when none
\* was supplied), with any other status it is null whatever it was before and
\* whatever was supplied; applying APPROVED twice gives APPROVED with a null
\* reason after the first and after the second application.
C13_StatusUpdateSetsReason ==
    /\ (resp.op = "update_book_status" /\ resp.code = 200) =>
           LET b == books[resp.book] IN
           /\ b.status = resp.status_data.status
           /\ b.rejection_reason =
                  IF resp.status_data.status = REJECTED
                  THEN resp.status_data.rejection_reason ELSE NULL
           /\ resp.body = {b}
    /\ \A b \in Range(books), r \in Reasons :
           LET approve == [status |-> APPROVED, rejection_reason |-> r]
               once == set_status(b, approve)
               twice == set_status(once, approve)
           IN /\ once.status = APPROVED /\ once.rejection_reason = NULL
              /\ twice.status = APPROVED /\ twice.rejection_reason = NULL

C13_Witness ==
    /\ resp.op = "update_book_status"
    /\ resp.code = 200
    /\ resp.status_data = [status |-> APPROVED, rejection_reason |-> "r1"]
    /\ \E b \in resp.before : b.status = APPROVED

\* C14: the moderation scenario end to end: an author who logs in with the
\* right credentials gets 200; an anonymous GET /books leaves out the author's
\* book while it is PENDING and returns it once an admin has approved it.
C14_ModerationScenario ==
    /\ (/\ resp.op = "login"
        /\ \E u \in Range(users) :
               /\ u.role = AUTHOR /\ u.email = resp.email
               /\ verify_password(resp.password, u.hashed_password))
           => resp.code = 200
    /\ (resp.op = "get_all_books" /\ resp.token = NoToken) =>
           \A b \in Range(books) :
               (b.owner_id \in DOMAIN users /\ users[b.owner_id].role = AUTHOR) =>
                   /\ b.status = PENDING => b \notin resp.body
                   /\ b.status = APPROVED => b \in resp.body

\* C15: the moderation round trip. From any state between requests, a book
\* an AUTHOR creates is PENDING; after an admin rejects it with a reason the
\* reason is stored; after an admin approves it it is APPROVED; after its
\* author then edits it it is PENDING with a null rejection_reason. And every
\* served edit by an author of a book that was APPROVED leaves it PENDING with
\* a null rejection_reason.
C15_ModerationRoundTrip ==
    /\ (Idle /\ nextBookId <= MaxBookId) =>
           \A author \in Range(users), admin \in Range(users),
              data \in BookData, edit \in BookData, r \in Reasons :
               LET id == nextBookId
                   created == create_book(books, users, data, author.id, id)
                   rejected == services_update_book_status(
                                   created.books, id,
                                   [status |-> REJECTED, rejection_reason |-> r],
                                   admin)
                   approved == services_update_book_status(
                                   rejected.books, id,
                                   [status |-> APPROVED, rejection_reason |-> NULL],
                                   admin)
                   edited == services_update_book(approved.books, edit, id, author)
               IN (/\ author.role = AUTHOR /\ admin.role = ADMIN
                   /\ created.raised = 0 /\ edited.raised = 0) =>
                      /\ created.books[id].status = PENDING
                      /\ rejected.books[id].status = REJECTED
                      /\ rejected.books[id].rejection_reason = r
                      /\ approved.books[id].status = APPROVED
                      /\ edited.books[id].status = PENDING
                      /\ edited.books[id].rejection_reason = NULL
                      /\ edited.ret = {edited.books[id]}
    /\ (/\ resp.op = "update_book" /\ resp.code = 200 /\ Caller.role = AUTHOR
        /\ \E b \in resp.before : b.status = APPROVED) =>
           /\ books[resp.book].status = PENDING
           /\ books[resp.book].rejection_reason = NULL

C15_Witness ==
    /\ resp.op = "update_book"
    /\ resp.code = 200
    /\ Caller.role = AUTHOR
    /\ \E b \in resp.before : b.status = APPROVED /\ b.owner_id = resp.caller
    /\ books[resp.book].status = PENDING

\* C16: get_book returns the book of an id exactly when that book exists and
\* is in the caller's visible set, for every stored user and for the anonymous
\* caller; GET /books/{id} never answers 403, answers an identified caller 200
\* with the book when it is visible and 404 otherwise, and its answer for an
\* id whose book is outside the caller's visible set is the answer the same
\* request gets when no book has that id.
C16_LookupAgreesWithVisibleSet ==
    /\ \A user \in Range(users) \cup {NoUser}, id \in 1..MaxBookId :
           get_book(books, id, user) = {b \in RowOf(books, id) : VisibleTo(user, b)}
    /\ resp.op = "get_book_by_id" =>
           LET dep == get_current_user(resp.token, users, now)
               visible == {b \in RowOf(books, resp.book) : VisibleTo(Caller, b)}
           IN /\ resp.code # 403
              /\ resp.caller # 0 =>
                     /\ resp.body = visible
                     /\ resp.code = IF visible = {} THEN 404 ELSE 200
              /\ visible = {} =>
                     /\ resp.body = {}
                     /\ resp.code = IF dep.code # 200 THEN dep.code ELSE 404

C16_Witness ==
    /\ resp.op = "get_book_by_id"
    /\ resp.code = 404
    /\ Caller.role = AUTHOR
    /\ \E b \in RowOf(books, resp.book) :
           b.owner_id # resp.caller /\ b.status = APPROVED

\* C17: for a user whose role is neither ADMIN nor AUTHOR both read paths
\* fail closed: get_books returns no book and get_book returns nothing for
\* every id.
C17_UnknownRoleSeesNothing ==
    \A uid \in 1..MaxUserId :
        LET user == UnknownRoleUser(uid) IN
        /\ get_books(books, user) = {}
        /\ \A id \in 1..MaxBookId : get_book(books, id, user) = {}

\* C18: get_password_hash accepts a password exactly when its UTF-8 encoding
\* has at most 72 bytes, and then hashes the whole password: 72 bytes are
\* hashed, 73 bytes are refused with 400, whether the bytes come from ASCII
\* or from wider characters. A registration with an over-long password is
\* answered 400 and leaves the users table as it was; one with a 72-byte
\* password and a free email stores the hash of that password; after every
\* request that can add a user no stored hash is the hash of anything but a
\* whole password of at most 72 bytes.
C18_PasswordByteLimit ==
    [][ resp'.op \in {"register", "create_admin_user"} =>
        /\ \A p \in Passwords :
               LET h == get_password_hash(p) IN
               /\ h.raised = 0 <=> Utf8Len(Chars(p)) <= 72
               /\ h.raised # 0 => h.raised = 400
               /\ h.raised = 0 => h.hash = BcryptHash(p) /\ verify_password(p, h.hash)
        /\ Utf8Len(Chars(pwMax)) = 72 /\ get_password_hash(pwMax).raised = 0
        /\ Utf8Len(Chars(pwOver)) = 73 /\ get_password_hash(pwOver).raised = 400
        /\ Utf8Len(Chars(pwWideMax)) = 72 /\ get_password_hash(pwWideMax).raised = 0
        /\ Utf8Len(Chars(pwWideOver)) = 73 /\ get_password_hash(pwWideOver).raised = 400
        /\ (resp'.op = "register" /\ Utf8Len(Chars(resp'.password)) > 72) =>
               /\ resp'.code = 400
               /\ users' = users
               /\ resp'.user = 0
        /\ (/\ resp'.op = "register" /\ Utf8Len(Chars(resp'.password)) <= 72
            /\ \A u \in Range(users) : u.email # resp'.email) =>
               /\ resp'.code = 200
               /\ users'[resp'.user].hashed_password = BcryptHash(resp'.password)
        /\ \A u \in Range(users') :
               /\ u.hashed_password.secret \in Passwords
               /\ Utf8Len(Chars(u.hashed_password.secret)) <= 72 ]_vars

C18_Witness ==
    /\ resp.op = "register"
    /\ resp.code = 400
    /\ resp.password = pwWideOver
    /\ Len(Chars(resp.password)) <= 72
    /\ \A u \in Range(users) : u.email # resp.email

\* C19: a served admin status update leaves the book APPROVED or REJECTED,
\* never PENDING.
C19_StatusUpdateNeverPending ==
    (resp.op = "update_book_status" /\ resp.code = 200) =>
        /\ books[resp.book].status \in {APPROVED, REJECTED}
        /\ resp.status_data.status # PENDING

\* C20: in every reachable state no two stored books share an ISBN; an
\* update_book that submits the ISBN of another stored book is refused and
\* leaves the book's row as it was.
C20_IsbnUniqueInStore ==
    /\ \A b1, b2 \in DOMAIN books :
           b1 # b2 => books[b1].isbn # books[b2].isbn
    /\ (/\ resp.op = "update_book" /\ resp.book \in DOMAIN books
        /\ \E b \in DOMAIN books \ {resp.book} : books[b].isbn = resp.data.isbn) =>
           /\ resp.code # 200
           /\ resp.before = {books[resp.book]}

C20_Witness ==
    /\ resp.op = "update_book"
    /\ resp.code = 500
    /\ \E b \in DOMAIN books \ {resp.book} : books[b].isbn = resp.data.isbn
    /\ books[resp.book].isbn # resp.data.isbn

\* C21: in every reachable state every book's status is PENDING, APPROVED or
\* REJECTED and a book with a rejection_reason is REJECTED; a served author
\* edit or admin status update of a REJECTED book that leaves it with another
\* status leaves its rejection_reason null, and a created book has none.
C21_ReasonOnlyWhenRejected ==
    /\ \A b \in Range(books) :
           /\ b.status \in BookStatus
           /\ b.rejection_reason # NULL => b.status = REJECTED
    /\ (/\ resp.op \in {"update_book", "update_book_status"} /\ resp.code = 200
        /\ \E b \in resp.before : b.status = REJECTED
        /\ books[resp.book].status # REJECTED) =>
           books[resp.book].rejection_reason = NULL
    /\ (resp.op = "create_new_book" /\ resp.code = 200) =>
           \A b \in resp.body : b.rejection_reason = NULL

\* C22: a session opened by get_db is open only while its request is being
\* served: whenever no request is in flight no session is open, whatever the
\* status (200, 400, 401, 403, 404, 500) of the request that ended; a request
\* in flight holds at most the one session it acquired.
C22_SessionReleasedAtRequestEnd ==
    /\ sessions \in {0, 1}
    /\ resp = NoResp => sessions = 0
    /\ resp # NoResp => sessions = (IF resp.db THEN 1 ELSE 0)
    /\ ended # NoneEnded =>
           /\ ended.code \in {200, 400, 401, 403, 404, 500}
           /\ sessions = 0

C22_Witness ==
    /\ resp = NoResp
    /\ ended.db
    /\ ended.code = 500
    /\ sessions = 0

\* C23: the token create_access_token issues at time t carries the expiration
\* t + ACCESS_TOKEN_EXPIRE_MINUTES; verify_token, which reads nothing but the
\* token and the clock, returns its subject at every time before that
\* expiration and raises 401 at every time after it; GET /users/me answers a
\* token issued to a stored user accordingly.
C23_TokenValidUntilExpiry ==
    /\ \A e \in Emails, t \in 0..now :
           LET token == create_access_token([sub |-> e], t) IN
           /\ token.exp = t + ACCESS_TOKEN_EXPIRE_MINUTES
           /\ \A t2 \in t..(MaxTime + 1) :
                  /\ t2 < t + ACCESS_TOKEN_EXPIRE_MINUTES =>
                         verify_token(token, t2) = [code |-> 200, email |-> e]
                  /\ t2 > t + ACCESS_TOKEN_EXPIRE_MINUTES =>
                         verify_token(token, t2).code = 401
    /\ (/\ resp.op = "users_me"
        /\ \E e \in Emails, t \in 0..now :
               resp.token = create_access_token([sub |-> e], t)) =>
           /\ now > resp.token.exp => resp.code = 401 /\ resp.caller = 0
           /\ (now < resp.token.exp /\ \E u \in Range(users) : u.email = resp.token.sub)
                  => resp.code = 200 /\ Caller.email = resp.token.sub

C23_Witness ==
    /\ resp.op = "users_me"
    /\ resp.token = create_access_token([sub |-> "root@x.com"], 0)
    /\ now > ACCESS_TOKEN_EXPIRE_MINUTES
    /\ resp.code = 401
    /\ \E u \in Range(users) : u.email = resp.token.sub

\* C24: an author's edit of a book that is committed after an admin's
\* approval of that book, and changes its content, does not leave the book
\* APPROVED.
C24_EditAfterApprovalNotApproved ==
    (/\ resp.op = "update_book" /\ resp.code = 200 /\ Caller.role = AUTHOR
     /\ \E b \in resp.before :
            /\ b.status = APPROVED
            /\ b.isbn # resp.data.isbn \/ b.title # resp.data.title) =>
        books[resp.book].status # APPROVED

\* C25: whatever way requests that passed their existence check interleave,
\* the store never holds two books with one ISBN or two users with one
\* email; a creation or registration that commits second adds no row and is
\* answered with an error.
C25_CheckThenInsertAddsOneRow ==
    /\ \A b1, b2 \in DOMAIN books : books[b1].isbn = books[b2].isbn => b1 = b2
    /\ \A u1, u2 \in DOMAIN users : users[u1].email = users[u2].email => u1 = u2
    /\ (resp.op = "create_new_book" /\ resp.code = 200) =>
           \E b \in resp.body : b.id = nextBookId - 1 /\ books[b.id] = b
    /\ (resp.op = "create_new_book" /\ resp.code # 200) => resp.body = {}
    /\ (resp.op = "register" /\ resp.code = 200) =>
           /\ resp.user = nextUserId - 1
           /\ users[resp.user].email = resp.email
    /\ (resp.op = "register" /\ resp.code # 200) => resp.user = 0

C25_Witness ==
    /\ resp.op = "register"
    /\ resp.code = 500
    /\ \E u \in Range(users) : u.email = resp.email

\* C26: a served edit by an ADMIN changes the bibliographic fields of the
\* book to the submitted ones and nothing else: status and rejection_reason
\* (and id and owner) are what they were before the call.
C26_AdminEditKeepsReview ==
    (resp.op = "update_book" /\ resp.code = 200 /\ Caller.role = ADMIN) =>
        \A b \in resp.before :
            /\ books[resp.book].status = b.status
            /\ books[resp.book].rejection_reason = b.rejection_reason
            /\ books[resp.book] =
                   [b EXCEPT !.isbn = resp.data.isbn, !.title = resp.data.title]
            /\ resp.body = {books[resp.book]}

C26_Witness ==
    /\ resp.op = "update_book"
    /\ resp.code = 200
    /\ Caller.role = ADMIN
    /\ \E b \in resp.before :
           /\ b.status = REJECTED /\ b.rejection_reason = "r1"
           /\ b.owner_id # resp.caller
           /\ b.title # resp.data.title
    /\ books[resp.book].status = REJECTED

\* C27: every stored book is owned by a stored user, who is the user that
\* created it: a row enters the table only by a served POST /books/, with the
\* caller as owner_id, and no request changes the id or the owner_id of a
\* row that stays in the table.
C27_OwnerFixedAndStored ==
    [][ /\ \A b \in DOMAIN books' :
               /\ books'[b].id = b
               /\ books'[b].owner_id \in DOMAIN users'
        /\ \A b \in DOMAIN books \cap DOMAIN books' :
               /\ books'[b].id = books[b].id
               /\ books'[b].owner_id = books[b].owner_id
        /\ \A b \in DOMAIN books' \ DOMAIN books :
               /\ resp'.op = "create_new_book" /\ resp'.code = 200
               /\ books'[b].owner_id = resp'.caller
               /\ resp'.caller \in DOMAIN users ]_vars

C27_Witness ==
    /\ resp.op = "update_book"
    /\ resp.code = 200
    /\ Caller.role = ADMIN
    /\ books[resp.book].owner_id # resp.caller
    /\ users[books[resp.book].owner_id].role = AUTHOR
    /\ \E b \in resp.before : b.isbn # resp.data.isbn

\* C28: a request that is answered 400, 401, 403 or 404 leaves the users
\* table and the books table, every field of every row included, exactly as
\* they were before it.
C28_ErrorsLeaveStoreUnchanged ==
    [][ resp'.code \in {400, 401, 403, 404} =>
            /\ users' = users
            /\ books' = books
            /\ nextUserId' = nextUserId
            /\ nextBookId' = nextBookId ]_vars

C28_Witness ==
    /\ resp.op = "update_book"
    /\ resp.code = 403
    /\ Caller.role = AUTHOR
    /\ \E b \in resp.before :
           /\ b.owner_id # resp.caller
           /\ b.title # resp.data.title
           /\ books[resp.book] = b

\* C29: once an admin's delete of a book has been served, no row has the
\* book's id; get_books returns the book to no caller (anonymous, author,
\* admin) and get_book finds nothing under its id for any of them; the other
\* rows are untouched; and a create_book with the deleted book's ISBN, by any
\* stored user, adds a row.
C29_DeleteIsComplete ==
    (resp.op = "delete_book" /\ resp.code = 200) =>
        \A deleted \in resp.before :
            /\ resp.body = {deleted}
            /\ resp.book \notin DOMAIN books
            /\ \A b \in Range(books) : b.id # deleted.id /\ b.isbn # deleted.isbn
            /\ \A user \in Range(users) \cup {NoUser} :
                   /\ deleted \notin get_books(books, user)
                   /\ get_book(books, resp.book, user) = {}
            /\ \A user \in Range(users), title \in Titles :
                   LET r == create_book(books, users,
                                        [isbn |-> deleted.isbn, title |-> title],
                                        user.id, nextBookId)
                   IN /\ r.raised = 0
                      /\ \E b \in r.ret : b.isbn = deleted.isbn /\ r.books[b.id] = b

C29_Witness ==
    /\ resp.op = "delete_book"
    /\ resp.code = 200
    /\ \E b \in resp.before : b.status = APPROVED /\ b.owner_id # resp.caller
    /\ books # <<>>
====
